---------------------------- MODULE Spec2Model ----------------------------
(***************************************************************************)
(* EcoHealth monitor: the browser-local store (users, check-in records,    *)
(* session) of services/storage and the check-in workflow of App.tsx.      *)
(*                                                                         *)
(* JavaScript objects are records; an optional property that is missing is *)
(* a missing record field.  localStorage is a function whose DOMAIN is the *)
(* set of keys that are present; the items are kept as the values that     *)
(* JSON.parse gives back (every stored value here is plain data of         *)
(* strings, integers and nested objects, which JSON round-trips).          *)
(***************************************************************************)
EXTENDS Integers, Sequences, FiniteSets, TLC

(***************************************************************************)
(* Bounds of the model.                                                    *)
(***************************************************************************)
\* Date.now() runs over 0..MaxNow.
MaxNow == 1
\* Number of clock ticks in one calendar day.
TicksPerDay == 1
\* resetToSeedData seeds the technicians SeedFirst..SeedLast of its 1..10.
SeedFirst == 8
SeedLast == 8
\* Days of history seeded for each technician (5 in the source).
SeedDays == 1
\* Spec: validateFace calls outstanding at once, records in the collection.
AppMaxPending == 1
AppMaxCheckIns == 2
\* SpecWorkflow: validateFace calls outstanding at once, records of the
\* signed-in user in the collection.
MaxPending == 1
MaxOwnCheckIns == 2
\* SpecStore: store calls made by the other tabs.
MaxCalls == 3
\* SpecCaptures: validateFace calls outstanding at once.
MaxCaptures == 2

(***************************************************************************)
(* Values.                                                                 *)
(***************************************************************************)
USERS_KEY == "ecohealth_users"
CHECKINS_KEY == "ecohealth_checkins"
SESSION_KEY == "ecohealth_session"

TECHNICIAN == "TECHNICIAN"
SUPERVISOR == "SUPERVISOR"
ADMIN == "ADMIN"
UserRole == {TECHNICIAN, SUPERVISOR, ADMIN}

LOW == "LOW"
MODERATE == "MODERATE"
HIGH == "HIGH"
INVALID == "INVALID"
RiskLevel == {LOW, MODERATE, HIGH, INVALID}

START_SHIFT == "START_SHIFT"
BREAK == "BREAK"
END_SHIFT == "END_SHIFT"
CheckInType == {START_SHIFT, BREAK, END_SHIFT}

\* JavaScript null, for object-valued and for string-valued state.
null == [isNull |-> TRUE]
nullStr == "null"

\* The object {} (JSON.parse("{}")).
EmptyObject == [k \in {} |-> TRUE]

Min(a, b) == IF a < b THEN a ELSE b
Max(a, b) == IF a > b THEN a ELSE b

\* arr.find(test) is the first element of arr.filter(test), or undefined
\* (null here); arr.filter(test) itself is SelectSeq(arr, test).
find(hits) == IF hits = <<>> THEN null ELSE hits[1]

\* seq without its i-th element.
RemoveAt(seq, i) == SubSeq(seq, 1, i - 1) \o SubSeq(seq, i + 1, Len(seq))

(***************************************************************************)
(* Inputs.                                                                 *)
(***************************************************************************)
\* The e-mail addresses typed into the forms: the address of the seeded
\* supervisor in two spellings that differ only in case.
FormEmails == {"gestor@eco.com", "GESTOR@eco.com"}
FormPasswords == {"123", "abc"}

\* String.prototype.toLowerCase on the addresses of the model.
toLowerCase(s) == IF s = "GESTOR@eco.com" THEN "gestor@eco.com" ELSE s

\* Math.random() * 20 - 10 of resetToSeedData, at the ends of its range.
RandomOffsets == {-10, 9}

VARIABLES
    localStorage,        \* window.localStorage: key -> stored item
    now,                 \* Date.now()
    pendingRegister,     \* registerUser calls of the page suspended on delay(800)
    pendingLogin,        \* loginUser calls of the page suspended on delay(600)
    tabs,                \* the store call each other tab of the origin is in
    calls,               \* number of store calls the other tabs have made
    returned,            \* how the last loginUser/registerUser promise of a tab settled
    currentUser,         \* App state
    currentView,
    checkIns,
    isLoading,
    selectedCheckInType,
    tempImage,
    lastResult,
    validationError,
    authIsLoading,       \* Auth state: isLoading
    authError,           \* Auth state: error
    pendingValidate,     \* handlePhotoCaptured calls awaiting validateFace
    pendingAnalyze       \* handleSurveySubmit calls awaiting analyzeFatigue

tabVars == <<tabs, calls, returned>>

storeVars == <<localStorage, now, pendingRegister, pendingLogin, tabVars>>

appVars ==
    <<currentUser, currentView, checkIns, isLoading, selectedCheckInType,
      tempImage, lastResult, validationError, authIsLoading, authError,
      pendingValidate, pendingAnalyze>>

vars == <<storeVars, appVars>>

(***************************************************************************)
(* localStorage.                                                           *)
(***************************************************************************)
hasItem(ls, key) == key \in DOMAIN ls

setItem(ls, key, value) ==
    [k \in (DOMAIN ls) \cup {key} |-> IF k = key THEN value ELSE ls[k]]

removeItem(ls, key) == [k \in (DOMAIN ls) \ {key} |-> ls[k]]

(***************************************************************************)
(* services/storage: user management.                                      *)
(***************************************************************************)
getUsers(ls) == IF hasItem(ls, USERS_KEY) THEN ls[USERS_KEY] ELSE <<>>

\* A variant that stores the new user alone.
saveUser_alone(ls, user) == setItem(ls, USERS_KEY, <<user>>)

saveUser(ls, user) == setItem(ls, USERS_KEY, Append(getUsers(ls), user))

\* A variant that compares the addresses as they are written.
getUserByEmail_caseSensitive(ls, email) ==
    LET SameEmail(u) == u.email = email
    IN  find(SelectSeq(getUsers(ls), SameEmail))

getUserByEmail(ls, email) ==
    LET SameEmail(u) == toLowerCase(u.email) = toLowerCase(email)
    IN  find(SelectSeq(getUsers(ls), SameEmail))

getCheckIns(ls) == IF hasItem(ls, CHECKINS_KEY) THEN ls[CHECKINS_KEY] ELSE <<>>

\* A variant that leaves the check-in collection alone.
deleteUser_usersOnly(ls, userId) ==
    LET OtherUser(u) == u.id # userId
    IN  setItem(ls, USERS_KEY, SelectSeq(getUsers(ls), OtherUser))

deleteUser(ls, userId) ==
    LET OtherUser(u) == u.id # userId
        OtherRecord(r) == r.userId # userId
        ls1 == setItem(ls, USERS_KEY, SelectSeq(getUsers(ls), OtherUser))
    IN  setItem(ls1, CHECKINS_KEY, SelectSeq(getCheckIns(ls1), OtherRecord))

(***************************************************************************)
(* services/storage: check-in management.                                  *)
(***************************************************************************)
\* A variant that puts the record at the end (push for unshift).
saveCheckIn_push(ls, record) ==
    setItem(ls, CHECKINS_KEY, Append(getCheckIns(ls), record))

saveCheckIn(ls, record) ==
    setItem(ls, CHECKINS_KEY, <<record>> \o getCheckIns(ls))

getCheckInsByUser(ls, userId) ==
    LET OfUser(r) == r.userId = userId
    IN  SelectSeq(getCheckIns(ls), OfUser)

(***************************************************************************)
(* services/storage: session management.                                   *)
(***************************************************************************)
\* A variant that keeps the password.
withoutPassword_copy(user) == user

\* { ...user } followed by delete sessionUser.password
withoutPassword(user) == [k \in (DOMAIN user) \ {"password"} |-> user[k]]

getCurrentSession(ls) == IF hasItem(ls, SESSION_KEY) THEN ls[SESSION_KEY] ELSE null

\* A variant that removes the check-in collection with the session.
logoutUser_andCheckIns(ls) == removeItem(removeItem(ls, SESSION_KEY), CHECKINS_KEY)

logoutUser(ls) == removeItem(ls, SESSION_KEY)

\* user-${Date.now()}
newUserId(t) == "user-" \o ToString(t)

\* A variant that accepts any password of a known address.
loginUser_anyPassword(ls, email, password) ==
    LET user == getUserByEmail(ls, email)
    IN  IF user = null
        THEN [ls |-> ls, ok |-> FALSE, error |-> "Invalid email or password"]
        ELSE [ls |-> setItem(ls, SESSION_KEY, withoutPassword(user)),
              ok |-> TRUE, value |-> withoutPassword(user)]

\* loginUser after its delay: the new store and what the promise settles to.
loginUser(ls, email, password) ==
    LET user == getUserByEmail(ls, email)
    IN  IF user = null \/ ("password" \notin DOMAIN user) \/ user.password # password
        THEN [ls |-> ls, ok |-> FALSE, error |-> "Invalid email or password"]
        ELSE [ls |-> setItem(ls, SESSION_KEY, withoutPassword(user)),
              ok |-> TRUE, value |-> withoutPassword(user)]

\* registerUser after its delay, at time t.
registerUser(ls, name, email, password, role, t) ==
    IF getUserByEmail(ls, email) # null
    THEN [ls |-> ls, ok |-> FALSE, error |-> "Email already registered"]
    ELSE LET newUser == [id |-> newUserId(t), name |-> name, email |-> email,
                         password |-> password, role |-> role]
             sessionUser == withoutPassword(newUser)
         IN  [ls |-> setItem(saveUser(ls, newUser), SESSION_KEY, sessionUser),
              ok |-> TRUE, value |-> sessionUser]

(***************************************************************************)
(* services/storage: reset and clear.                                      *)
(***************************************************************************)
clearAllData(ls) ==
    removeItem(removeItem(removeItem(ls, USERS_KEY), CHECKINS_KEY), SESSION_KEY)

\* The calendar day of a timestamp (toLocaleDateString).
DayOf(t) == t \div TicksPerDay

gestor ==
    [id |-> "gestor-1", name |-> "Gestor Geral", email |-> "gestor@eco.com",
     password |-> "123", role |-> SUPERVISOR]

seedTech(i) ==
    [id |-> "tech-" \o ToString(i), name |-> "Tecnico " \o ToString(i),
     email |-> ToString(i) \o "@" \o ToString(i), password |-> "123",
     role |-> TECHNICIAN]

\* One seeded history record of technician i, d days ago; offset is the
\* value of Math.random() * 20 - 10 drawn for it.
seedRecord(i, d, offset, t) ==
    LET isHighRisk == i > 7
        baseFatigue == IF isHighRisk THEN 80 ELSE 20
        fatigue == Min(100, Max(0, baseFatigue + offset))
        risk == IF fatigue > 70 THEN HIGH ELSE IF fatigue > 40 THEN MODERATE ELSE LOW
    IN  [id |-> "chk-tech-" \o ToString(i) \o "-" \o ToString(d),
         userId |-> "tech-" \o ToString(i),
         timestamp |-> t - d * TicksPerDay,
         type |-> START_SHIFT,
         imageUrl |-> "seed-image",
         surveyAnswers |-> IF isHighRisk THEN "tired" ELSE "rested",
         analysis |-> [fatigueLevel |-> fatigue, riskLevel |-> risk]]

SeedTechs == SeedFirst..SeedLast
SeedDraws == [SeedTechs \X (0..(SeedDays - 1)) -> RandomOffsets]
\* The draws in which Math.random() returns 0 every time.
LowestDraws == [p \in SeedTechs \X (0..(SeedDays - 1)) |-> -10]

RECURSIVE seedUsers(_)
seedUsers(i) == IF i > SeedLast THEN <<>> ELSE <<seedTech(i)>> \o seedUsers(i + 1)

RECURSIVE seedHistoryOf(_, _, _, _)
seedHistoryOf(i, d, draws, t) ==
    IF d >= SeedDays THEN <<>>
    ELSE <<seedRecord(i, d, draws[<<i, d>>], t)>> \o seedHistoryOf(i, d + 1, draws, t)

RECURSIVE seedHistory(_, _, _)
seedHistory(i, draws, t) ==
    IF i > SeedLast THEN <<>>
    ELSE seedHistoryOf(i, 0, draws, t) \o seedHistory(i + 1, draws, t)

resetToSeedData(ls, draws, t) ==
    LET cleared == clearAllData(ls)
        seededUsers == <<gestor>> \o seedUsers(SeedFirst)
        history == seedHistory(SeedFirst, draws, t)
    IN  setItem(setItem(cleared, USERS_KEY, seededUsers), CHECKINS_KEY, history)

(***************************************************************************)
(* services/geminiService: the gateway and its two operations.  A gateway  *)
(* outcome is either a failure before a response text exists (no API key,  *)
(* transport or auth error, unparsable text) or the parsed response.       *)
(***************************************************************************)
GatewayFailure == [failed |-> TRUE]

\* Parsed responses of the face check.
FaceResponses ==
    { [isValid |-> TRUE],
      [isValid |-> TRUE, message |-> "Face detected"],
      [isValid |-> FALSE],
      [isValid |-> FALSE, message |-> ""],
      [isValid |-> FALSE, message |-> "No face visible"],
      EmptyObject,
      null }
FaceOutcomes == {GatewayFailure} \cup FaceResponses

\* Parsed responses of the fatigue analysis.
AnalysisResponses ==
    { [fatigueLevel |-> 20, riskLevel |-> LOW, explanation |-> "Rested"],
      [fatigueLevel |-> 0, riskLevel |-> INVALID, explanation |-> "Keep a neutral face"],
      EmptyObject,
      null }
AnalysisOutcomes == {GatewayFailure} \cup AnalysisResponses

validateFace(outcome) ==
    IF outcome = GatewayFailure
    THEN [isValid |-> FALSE, message |-> "AI Connection Error. Check Key."]
    ELSE outcome

\* A variant without the catch: the failure reaches the caller, which
\* handles it as it handles the failed read of a null result.
analyzeFatigue_raises(outcome) ==
    IF outcome = GatewayFailure THEN null ELSE outcome

analyzeFatigue(outcome) ==
    IF outcome = GatewayFailure
    THEN [fatigueLevel |-> 0, riskLevel |-> INVALID, explanation |-> "AI Connection Error."]
    ELSE outcome

(***************************************************************************)
(* App.tsx: views, inputs and derived data.                                *)
(***************************************************************************)
DASHBOARD == "DASHBOARD"
CHECK_IN_CAMERA == "CHECK_IN_CAMERA"
CHECK_IN_VALIDATING == "CHECK_IN_VALIDATING"
CHECK_IN_SURVEY == "CHECK_IN_SURVEY"
CHECK_IN_RESULT == "CHECK_IN_RESULT"
TEAM_OVERVIEW == "TEAM_OVERVIEW"
ADMIN_PANEL == "ADMIN_PANEL"

\* Image payloads delivered by the camera.
Images == {"data:image/jpeg;base64,AAA"}

\* Survey answers submitted by the form (its defaults).
Surveys ==
    { [sleepQuality |-> 3, energyLevel |-> 5, focusLevel |-> 5,
       motivationLevel |-> 5, feelingSafe |-> 5] }

isSupervisorOrAdmin(user) == user.role = SUPERVISOR \/ user.role = ADMIN

\* What refreshData(user) passes to setCheckIns.
refreshData(ls, user) ==
    IF isSupervisorOrAdmin(user) THEN getCheckIns(ls) ELSE getCheckInsByUser(ls, user.id)

myHistory ==
    LET Mine(c) == currentUser # null /\ c.userId = currentUser.id
    IN  SelectSeq(checkIns, Mine)

\* renderActionButtons: isDone of the button of a check-in type.
isDone(type) ==
    \E k \in DOMAIN myHistory :
        /\ DayOf(myHistory[k].timestamp) = DayOf(now)
        /\ myHistory[k].type = type

\* A variant without the session restore effect.
AppMounted_signedOut(ls) ==
    /\ currentUser' = null
    /\ checkIns' = <<>>
    /\ currentView' = DASHBOARD
    /\ isLoading' = FALSE
    /\ selectedCheckInType' = START_SHIFT
    /\ tempImage' = nullStr
    /\ lastResult' = null
    /\ validationError' = nullStr
    /\ authIsLoading' = FALSE
    /\ authError' = ""
    /\ pendingValidate' = <<>>
    /\ pendingAnalyze' = <<>>

\* The state of a freshly mounted App.
AppMounted(ls) ==
    LET session == getCurrentSession(ls)
    IN  /\ currentUser' = session
        /\ checkIns' = IF session # null THEN refreshData(ls, session) ELSE <<>>
        /\ currentView' = IF session # null /\ session.role = SUPERVISOR
                          THEN TEAM_OVERVIEW ELSE DASHBOARD
        /\ isLoading' = FALSE
        /\ selectedCheckInType' = START_SHIFT
        /\ tempImage' = nullStr
        /\ lastResult' = null
        /\ validationError' = nullStr
        /\ authIsLoading' = FALSE
        /\ authError' = ""
        /\ pendingValidate' = <<>>
        /\ pendingAnalyze' = <<>>

(***************************************************************************)
(* The clock.                                                              *)
(***************************************************************************)
Tick ==
    /\ now < MaxNow
    /\ now' = now + 1
    /\ UNCHANGED <<localStorage, pendingRegister, pendingLogin, tabVars, appVars>>

(***************************************************************************)
(* App.tsx: session restore, login, logout, user deletion.                 *)
(***************************************************************************)
\* handleLoginSuccess, run by Auth's onLoginSuccess; Auth is unmounted (and
\* its state dropped) once there is a current user.
handleLoginSuccess(ls) ==
    LET session == getCurrentSession(ls)
    IN  IF session # null
        THEN /\ currentUser' = session
             /\ checkIns' = refreshData(ls, session)
             /\ currentView' = IF session.role = SUPERVISOR THEN TEAM_OVERVIEW ELSE DASHBOARD
             /\ authIsLoading' = FALSE
             /\ authError' = ""
        ELSE UNCHANGED <<currentUser, checkIns, currentView, authIsLoading, authError>>

\* The tail of Auth's handleLogin / handleRegister once the store call settled.
AuthSettled(result) ==
    /\ IF result.ok
       THEN handleLoginSuccess(result.ls)
       ELSE /\ authError' = result.error
            /\ authIsLoading' = FALSE
            /\ UNCHANGED <<currentUser, checkIns, currentView>>
    /\ UNCHANGED <<isLoading, selectedCheckInType, tempImage, lastResult,
                   validationError, pendingValidate, pendingAnalyze>>

handleLogin(email, password) ==
    /\ currentUser = null
    /\ ~authIsLoading
    /\ authIsLoading' = TRUE
    /\ authError' = ""
    /\ pendingLogin' = Append(pendingLogin, [email |-> email, password |-> password])
    /\ UNCHANGED <<localStorage, now, pendingRegister, tabVars, currentUser,
                   currentView, checkIns, isLoading, selectedCheckInType, tempImage,
                   lastResult, validationError, pendingValidate, pendingAnalyze>>

handleRegister(name, email, password, role) ==
    /\ currentUser = null
    /\ ~authIsLoading
    /\ authIsLoading' = TRUE
    /\ pendingRegister' = Append(pendingRegister,
                                 [name |-> name, email |-> email,
                                  password |-> password, role |-> role])
    /\ UNCHANGED <<localStorage, now, pendingLogin, tabVars, currentUser,
                   currentView, checkIns, isLoading, selectedCheckInType, tempImage,
                   lastResult, validationError, authError, pendingValidate,
                   pendingAnalyze>>

\* A loginUser call resumes after its delay and runs to its end.
loginUserResumes(i) ==
    /\ i \in DOMAIN pendingLogin
    /\ LET call == pendingLogin[i]
           result == loginUser(localStorage, call.email, call.password)
       IN  /\ localStorage' = result.ls
           /\ AuthSettled(result)
    /\ pendingLogin' = RemoveAt(pendingLogin, i)
    /\ UNCHANGED <<now, pendingRegister, tabVars>>

\* A registerUser call resumes after its delay and runs to its end.
registerUserResumes(i) ==
    /\ i \in DOMAIN pendingRegister
    /\ LET call == pendingRegister[i]
           result == registerUser(localStorage, call.name, call.email,
                                  call.password, call.role, now)
       IN  /\ localStorage' = result.ls
           /\ AuthSettled(result)
    /\ pendingRegister' = RemoveAt(pendingRegister, i)
    /\ UNCHANGED <<now, pendingLogin, tabVars>>

handleLogout ==
    /\ localStorage' = logoutUser(localStorage)
    /\ currentUser' = null
    /\ checkIns' = <<>>
    /\ currentView' = DASHBOARD
    /\ UNCHANGED <<now, pendingRegister, pendingLogin, tabVars, isLoading,
                   selectedCheckInType, tempImage, lastResult, validationError,
                   authIsLoading, authError, pendingValidate, pendingAnalyze>>

\* The admin panel lists getUsers() and offers deletion of everyone but the
\* current user; window.confirm is answered with OK.
handleDeleteUser(userId) ==
    /\ currentUser # null
    /\ currentView = ADMIN_PANEL
    /\ userId # currentUser.id
    /\ \E k \in DOMAIN getUsers(localStorage) : getUsers(localStorage)[k].id = userId
    /\ localStorage' = deleteUser(localStorage, userId)
    /\ checkIns' = getCheckIns(localStorage')
    /\ UNCHANGED <<now, pendingRegister, pendingLogin, tabVars, currentUser,
                   currentView, isLoading, selectedCheckInType, tempImage, lastResult,
                   validationError, authIsLoading, authError, pendingValidate,
                   pendingAnalyze>>

\* window.location.reload(): the page's state and its suspended calls are
\* gone, and the new page runs the session restore effect.
Reload(ls) ==
    /\ AppMounted(ls)
    /\ pendingRegister' = <<>>
    /\ pendingLogin' = <<>>

\* The user reloads the page.
PageReload ==
    /\ Reload(localStorage)
    /\ UNCHANGED <<localStorage, now, tabVars>>

\* Auth.tsx handleResetDemo
handleResetDemo(draws) ==
    /\ currentUser = null
    /\ localStorage' = resetToSeedData(localStorage, draws, now)
    /\ Reload(localStorage')
    /\ UNCHANGED <<now, tabVars>>

\* Auth.tsx handleClearAll
handleClearAll ==
    /\ currentUser = null
    /\ localStorage' = clearAllData(localStorage)
    /\ Reload(localStorage')
    /\ UNCHANGED <<now, tabVars>>

\* The Dashboard entry of the sidebar and of the mobile menu, and the cancel
\* buttons of the camera and survey views: setCurrentView(View.DASHBOARD).
NavDashboard ==
    /\ currentView # DASHBOARD
    /\ currentView' = DASHBOARD
    /\ UNCHANGED <<storeVars, currentUser, checkIns, isLoading, selectedCheckInType,
                   tempImage, lastResult, validationError, authIsLoading, authError,
                   pendingValidate, pendingAnalyze>>

NavSupervisor(view) ==
    /\ currentUser # null
    /\ isSupervisorOrAdmin(currentUser)
    /\ view \in {TEAM_OVERVIEW, ADMIN_PANEL}
    /\ currentView # view
    /\ currentView' = view
    /\ UNCHANGED <<storeVars, currentUser, checkIns, isLoading, selectedCheckInType,
                   tempImage, lastResult, validationError, authIsLoading, authError,
                   pendingValidate, pendingAnalyze>>

(***************************************************************************)
(* App.tsx: the check-in workflow.                                         *)
(***************************************************************************)
\* translations[lang].noFaceMsg, a non-empty localized text.
noFaceMsg == "No face detected"

startCheckIn(type) ==
    /\ currentUser # null
    /\ currentView = DASHBOARD
    /\ ~isDone(type)
    /\ selectedCheckInType' = type
    /\ tempImage' = nullStr
    /\ lastResult' = null
    /\ validationError' = nullStr
    /\ currentView' = CHECK_IN_CAMERA
    /\ UNCHANGED <<storeVars, currentUser, checkIns, isLoading, authIsLoading,
                   authError, pendingValidate, pendingAnalyze>>

\* handlePhotoCaptured up to its await.
handlePhotoCaptured(imageBase64) ==
    /\ currentUser # null
    /\ currentView = CHECK_IN_CAMERA
    /\ tempImage' = imageBase64
    /\ currentView' = CHECK_IN_VALIDATING
    /\ validationError' = nullStr
    /\ pendingValidate' = Append(pendingValidate,
                                 [imageBase64 |-> imageBase64, currentUser |-> currentUser])
    /\ UNCHANGED <<storeVars, currentUser, checkIns, isLoading, selectedCheckInType,
                   lastResult, authIsLoading, authError, pendingAnalyze>>

\* A variant that lets a response without an isValid field through.
faceAccepted_failOpen(check) == "isValid" \notin DOMAIN check \/ check.isValid

\* if (check.isValid)
faceAccepted(check) == "isValid" \in DOMAIN check /\ check.isValid

\* check.message || t.noFaceMsg
rejectionMessage(check) ==
    IF "message" \in DOMAIN check /\ check.message # "" THEN check.message ELSE noFaceMsg

\* handlePhotoCaptured from its await on: validateFace settled with the
\* given gateway outcome.  Reading check.isValid of null throws into the catch.
validateFaceSettles(i, outcome) ==
    /\ i \in DOMAIN pendingValidate
    /\ LET check == validateFace(outcome)
       IN  IF check = null
           THEN /\ validationError' = "Validation error"
                /\ currentView' = CHECK_IN_CAMERA
           ELSE IF faceAccepted(check)
                THEN /\ currentView' = CHECK_IN_SURVEY
                     /\ UNCHANGED validationError
                ELSE /\ validationError' = rejectionMessage(check)
                     /\ currentView' = CHECK_IN_CAMERA
    /\ pendingValidate' = RemoveAt(pendingValidate, i)
    /\ UNCHANGED <<storeVars, currentUser, checkIns, isLoading, selectedCheckInType,
                   tempImage, lastResult, authIsLoading, authError, pendingAnalyze>>

\* A variant whose form stays on show while a call is outstanding.
handleSurveySubmit_whileLoading(answers) ==
    /\ currentUser # null
    /\ currentView = CHECK_IN_SURVEY
    /\ IF tempImage = nullStr
       THEN UNCHANGED <<isLoading, pendingAnalyze>>
       ELSE /\ isLoading' = TRUE
            /\ pendingAnalyze' = Append(pendingAnalyze,
                   [tempImage |-> tempImage, currentUser |-> currentUser,
                    selectedCheckInType |-> selectedCheckInType, answers |-> answers])
    /\ UNCHANGED <<storeVars, currentUser, currentView, checkIns, selectedCheckInType,
                   tempImage, lastResult, validationError, authIsLoading, authError,
                   pendingValidate>>

\* handleSurveySubmit up to its await; the form is rendered in the survey
\* view while isLoading is false.  The call keeps the state of the render
\* it was made from.
handleSurveySubmit(answers) ==
    /\ currentUser # null
    /\ currentView = CHECK_IN_SURVEY
    /\ ~isLoading
    /\ IF tempImage = nullStr
       THEN UNCHANGED <<isLoading, pendingAnalyze>>
       ELSE /\ isLoading' = TRUE
            /\ pendingAnalyze' = Append(pendingAnalyze,
                   [tempImage |-> tempImage, currentUser |-> currentUser,
                    selectedCheckInType |-> selectedCheckInType, answers |-> answers])
    /\ UNCHANGED <<storeVars, currentUser, currentView, checkIns, selectedCheckInType,
                   tempImage, lastResult, validationError, authIsLoading, authError,
                   pendingValidate>>

\* A variant that never recognises an invalid result.
isInvalid_never(analysis) == FALSE

\* A variant that recognises only results without a fatigue score.
isInvalid_byScore(analysis) ==
    "fatigueLevel" \in DOMAIN analysis /\ analysis.fatigueLevel = 0
    /\ "riskLevel" \in DOMAIN analysis /\ analysis.riskLevel = INVALID
    /\ analysis.explanation = "AI Connection Error."

\* analysis.riskLevel === RiskLevel.INVALID
isInvalid(analysis) == "riskLevel" \in DOMAIN analysis /\ analysis.riskLevel = INVALID

\* chk-${Date.now()}
newCheckInId(t) == "chk-" \o ToString(t)

\* A variant that reads the check-in type selected when the call settles.
newRecord_currentType(call, analysis, t) ==
    [id |-> newCheckInId(t),
     userId |-> call.currentUser.id,
     timestamp |-> t,
     type |-> selectedCheckInType,
     imageUrl |-> call.tempImage,
     surveyAnswers |-> call.answers,
     analysis |-> analysis,
     location |-> [lat |-> 0, lng |-> 0]]

newRecord(call, analysis, t) ==
    [id |-> newCheckInId(t),
     userId |-> call.currentUser.id,
     timestamp |-> t,
     type |-> call.selectedCheckInType,
     imageUrl |-> call.tempImage,
     surveyAnswers |-> call.answers,
     analysis |-> analysis,
     location |-> [lat |-> 0, lng |-> 0]]

\* handleSurveySubmit from its await on: analyzeFatigue settled with the
\* given gateway outcome.  Reading analysis.riskLevel of null throws into
\* the catch; the finally clears isLoading on every path.
analyzeFatigueSettles(i, outcome) ==
    /\ i \in DOMAIN pendingAnalyze
    /\ LET call == pendingAnalyze[i]
           analysis == analyzeFatigue(outcome)
       IN  IF analysis = null
           THEN /\ currentView' = DASHBOARD
                /\ UNCHANGED <<localStorage, lastResult, checkIns>>
           ELSE IF isInvalid(analysis)
                THEN /\ lastResult' = analysis
                     /\ currentView' = CHECK_IN_RESULT
                     /\ UNCHANGED <<localStorage, checkIns>>
                ELSE /\ lastResult' = analysis
                     /\ localStorage' = saveCheckIn(localStorage, newRecord(call, analysis, now))
                     /\ checkIns' = refreshData(localStorage', call.currentUser)
                     /\ currentView' = CHECK_IN_RESULT
    /\ isLoading' = FALSE
    /\ pendingAnalyze' = RemoveAt(pendingAnalyze, i)
    /\ UNCHANGED <<now, pendingRegister, pendingLogin, tabVars, currentUser,
                   selectedCheckInType, tempImage, validationError, authIsLoading,
                   authError, pendingValidate>>

\* A variant whose button always returns to the dashboard.
resultButton_toDashboard ==
    /\ currentUser # null
    /\ currentView = CHECK_IN_RESULT
    /\ lastResult # null
    /\ currentView' = DASHBOARD
    /\ UNCHANGED <<storeVars, currentUser, checkIns, isLoading, selectedCheckInType,
                   tempImage, lastResult, validationError, authIsLoading, authError,
                   pendingValidate, pendingAnalyze>>

\* The button of renderResult.
resultButton ==
    /\ currentUser # null
    /\ currentView = CHECK_IN_RESULT
    /\ lastResult # null
    /\ currentView' = IF isInvalid(lastResult) THEN CHECK_IN_CAMERA ELSE DASHBOARD
    /\ UNCHANGED <<storeVars, currentUser, checkIns, isLoading, selectedCheckInType,
                   tempImage, lastResult, validationError, authIsLoading, authError,
                   pendingValidate, pendingAnalyze>>

(***************************************************************************)
(* The store called by other tabs of the same origin.  The tabs share      *)
(* localStorage and run in parallel: what is atomic is one getItem,        *)
(* setItem or removeItem, not a function of services/storage.  tabs[t]     *)
(* holds the call tab t is in: where it stands and its local variables.    *)
(***************************************************************************)
Tabs == {"tabA", "tabB"}

Idle == [pc |-> "idle"]

\* Tab t goes on to next; the page and the other tabs stay as they are.
TabGoes(t, next) ==
    /\ tabs' = [tabs EXCEPT ![t] = next]
    /\ UNCHANGED <<now, pendingRegister, pendingLogin, appVars>>

\* Tab t makes a call.
TabCalls(t) ==
    /\ calls < MaxCalls
    /\ tabs[t] = Idle
    /\ calls' = calls + 1

\* registerUser: the call suspends on delay(800).
tabRegisterUser(t, name, email, password, role) ==
    /\ TabCalls(t)
    /\ TabGoes(t, [pc |-> "registerUser", name |-> name, email |-> email,
                   password |-> password, role |-> role])
    /\ UNCHANGED <<localStorage, returned>>

\* registerUser: if (getUserByEmail(email)) throw ...; const newUser = ...
registerUserChecks(t) ==
    /\ tabs[t].pc = "registerUser"
    /\ LET call == tabs[t]
           newUser == [id |-> newUserId(now), name |-> call.name, email |-> call.email,
                       password |-> call.password, role |-> call.role]
       IN  IF getUserByEmail(localStorage, call.email) # null
           THEN /\ returned' = [op |-> "registerUser", ok |-> FALSE,
                                error |-> "Email already registered"]
                /\ TabGoes(t, Idle)
           ELSE /\ TabGoes(t, [pc |-> "saveUser", newUser |-> newUser])
                /\ UNCHANGED returned
    /\ UNCHANGED <<localStorage, calls>>

\* saveUser: const users = getUsers(); users.push(user);
saveUserReads(t) ==
    /\ tabs[t].pc = "saveUser"
    /\ TabGoes(t, [pc |-> "saveUser.setItem", newUser |-> tabs[t].newUser,
                   users |-> Append(getUsers(localStorage), tabs[t].newUser)])
    /\ UNCHANGED <<localStorage, calls, returned>>

\* saveUser: localStorage.setItem(USERS_KEY, JSON.stringify(users));
saveUserWrites(t) ==
    /\ tabs[t].pc = "saveUser.setItem"
    /\ localStorage' = setItem(localStorage, USERS_KEY, tabs[t].users)
    /\ TabGoes(t, [pc |-> "registerUser.setItem", newUser |-> tabs[t].newUser])
    /\ UNCHANGED <<calls, returned>>

\* registerUser: localStorage.setItem(SESSION_KEY, ...); return sessionUser;
registerUserSetsSession(t) ==
    /\ tabs[t].pc = "registerUser.setItem"
    /\ LET sessionUser == withoutPassword(tabs[t].newUser)
       IN  /\ localStorage' = setItem(localStorage, SESSION_KEY, sessionUser)
           /\ returned' = [op |-> "registerUser", ok |-> TRUE, value |-> sessionUser]
    /\ TabGoes(t, Idle)
    /\ UNCHANGED calls

\* loginUser: the call suspends on delay(600).
tabLoginUser(t, email, password) ==
    /\ TabCalls(t)
    /\ TabGoes(t, [pc |-> "loginUser", email |-> email, password |-> password])
    /\ UNCHANGED <<localStorage, returned>>

\* loginUser: const user = getUserByEmail(email); if (!user || ...) throw ...
loginUserChecks(t) ==
    /\ tabs[t].pc = "loginUser"
    /\ LET result == loginUser(localStorage, tabs[t].email, tabs[t].password)
       IN  IF result.ok
           THEN /\ TabGoes(t, [pc |-> "loginUser.setItem", sessionUser |-> result.value])
                /\ UNCHANGED returned
           ELSE /\ returned' = [op |-> "loginUser", ok |-> FALSE, error |-> result.error]
                /\ TabGoes(t, Idle)
    /\ UNCHANGED <<localStorage, calls>>

\* loginUser: localStorage.setItem(SESSION_KEY, ...); return sessionUser;
loginUserSetsSession(t) ==
    /\ tabs[t].pc = "loginUser.setItem"
    /\ localStorage' = setItem(localStorage, SESSION_KEY, tabs[t].sessionUser)
    /\ returned' = [op |-> "loginUser", ok |-> TRUE, value |-> tabs[t].sessionUser]
    /\ TabGoes(t, Idle)
    /\ UNCHANGED calls

\* logoutUser: one removeItem.
tabLogoutUser(t) ==
    /\ TabCalls(t)
    /\ localStorage' = logoutUser(localStorage)
    /\ TabGoes(t, Idle)
    /\ UNCHANGED returned

\* deleteUser: let users = getUsers(); users = users.filter(...);
tabDeleteUser(t, userId) ==
    /\ TabCalls(t)
    /\ LET OtherUser(u) == u.id # userId
       IN  TabGoes(t, [pc |-> "deleteUser.setItem", userId |-> userId,
                       users |-> SelectSeq(getUsers(localStorage), OtherUser)])
    /\ UNCHANGED <<localStorage, returned>>

\* deleteUser: localStorage.setItem(USERS_KEY, JSON.stringify(users));
deleteUserWritesUsers(t) ==
    /\ tabs[t].pc = "deleteUser.setItem"
    /\ localStorage' = setItem(localStorage, USERS_KEY, tabs[t].users)
    /\ TabGoes(t, [pc |-> "deleteUser.getCheckIns", userId |-> tabs[t].userId])
    /\ UNCHANGED <<calls, returned>>

\* deleteUser: let records = getCheckIns(); records = records.filter(...);
deleteUserReadsCheckIns(t) ==
    /\ tabs[t].pc = "deleteUser.getCheckIns"
    /\ LET OtherRecord(r) == r.userId # tabs[t].userId
       IN  TabGoes(t, [pc |-> "deleteUser.setItem2", userId |-> tabs[t].userId,
                       records |-> SelectSeq(getCheckIns(localStorage), OtherRecord)])
    /\ UNCHANGED <<localStorage, calls, returned>>

\* deleteUser: localStorage.setItem(CHECKINS_KEY, JSON.stringify(records));
deleteUserWritesCheckIns(t) ==
    /\ tabs[t].pc = "deleteUser.setItem2"
    /\ localStorage' = setItem(localStorage, CHECKINS_KEY, tabs[t].records)
    /\ TabGoes(t, Idle)
    /\ UNCHANGED <<calls, returned>>

\* saveCheckIn: const records = getCheckIns(); records.unshift(record); the
\* record is one that handleSurveySubmit builds for the given user.
tabSaveCheckIn(t, userId, type, analysis) ==
    /\ TabCalls(t)
    /\ LET record == [id |-> newCheckInId(now), userId |-> userId, timestamp |-> now,
                      type |-> type, analysis |-> analysis]
       IN  TabGoes(t, [pc |-> "saveCheckIn.setItem",
                       records |-> <<record>> \o getCheckIns(localStorage)])
    /\ UNCHANGED <<localStorage, returned>>

\* A variant that reads the collection again when it writes.
saveCheckInWrites_merging(t) ==
    /\ tabs[t].pc = "saveCheckIn.setItem"
    /\ localStorage' = setItem(localStorage, CHECKINS_KEY,
                               <<tabs[t].records[1]>> \o getCheckIns(localStorage))
    /\ TabGoes(t, Idle)
    /\ UNCHANGED <<calls, returned>>

\* saveCheckIn: localStorage.setItem(CHECKINS_KEY, JSON.stringify(records));
saveCheckInWrites(t) ==
    /\ tabs[t].pc = "saveCheckIn.setItem"
    /\ localStorage' = setItem(localStorage, CHECKINS_KEY, tabs[t].records)
    /\ TabGoes(t, Idle)
    /\ UNCHANGED <<calls, returned>>

\* clearAllData: localStorage.removeItem(USERS_KEY);
tabClearAllData(t, caller) ==
    /\ TabCalls(t)
    /\ localStorage' = removeItem(localStorage, USERS_KEY)
    /\ TabGoes(t, [pc |-> "clearAllData.removeItem2", caller |-> caller])
    /\ UNCHANGED returned

\* clearAllData: localStorage.removeItem(CHECKINS_KEY);
clearAllDataRemovesCheckIns(t) ==
    /\ tabs[t].pc = "clearAllData.removeItem2"
    /\ localStorage' = removeItem(localStorage, CHECKINS_KEY)
    /\ TabGoes(t, [pc |-> "clearAllData.removeItem3", caller |-> tabs[t].caller])
    /\ UNCHANGED <<calls, returned>>

\* clearAllData: localStorage.removeItem(SESSION_KEY); resetToSeedData then
\* builds seededUsers and history.
clearAllDataRemovesSession(t, draws) ==
    /\ tabs[t].pc = "clearAllData.removeItem3"
    /\ localStorage' = removeItem(localStorage, SESSION_KEY)
    /\ IF tabs[t].caller = "resetToSeedData"
       THEN TabGoes(t, [pc |-> "resetToSeedData.setItem",
                        seededUsers |-> <<gestor>> \o seedUsers(SeedFirst),
                        history |-> seedHistory(SeedFirst, draws, now)])
       ELSE TabGoes(t, Idle)
    /\ UNCHANGED <<calls, returned>>

\* resetToSeedData: clearAllData(); ...
tabResetToSeedData(t) == tabClearAllData(t, "resetToSeedData")

\* resetToSeedData: localStorage.setItem(USERS_KEY, JSON.stringify(seededUsers));
resetToSeedDataWritesUsers(t) ==
    /\ tabs[t].pc = "resetToSeedData.setItem"
    /\ localStorage' = setItem(localStorage, USERS_KEY, tabs[t].seededUsers)
    /\ TabGoes(t, [pc |-> "resetToSeedData.setItem2", history |-> tabs[t].history])
    /\ UNCHANGED <<calls, returned>>

\* resetToSeedData: localStorage.setItem(CHECKINS_KEY, JSON.stringify(history));
resetToSeedDataWritesCheckIns(t) ==
    /\ tabs[t].pc = "resetToSeedData.setItem2"
    /\ localStorage' = setItem(localStorage, CHECKINS_KEY, tabs[t].history)
    /\ TabGoes(t, Idle)
    /\ UNCHANGED <<calls, returned>>

(***************************************************************************)
(* Spec: the application, one page over an initially empty localStorage,   *)
(* with the forms filled from small sets and the clock standing still.     *)
(***************************************************************************)
NoReturn == [op |-> "none"]

\* No other tab has called the store.
NoTabs ==
    /\ tabs = [t \in Tabs |-> Idle]
    /\ calls = 0
    /\ returned = NoReturn

AppIdle ==
    /\ isLoading = FALSE
    /\ selectedCheckInType = START_SHIFT
    /\ tempImage = nullStr
    /\ lastResult = null
    /\ validationError = nullStr
    /\ authIsLoading = FALSE
    /\ authError = ""
    /\ pendingValidate = <<>>
    /\ pendingAnalyze = <<>>

Init ==
    /\ localStorage = EmptyObject
    /\ now = 0
    /\ pendingRegister = <<>>
    /\ pendingLogin = <<>>
    /\ NoTabs
    /\ currentUser = null
    /\ currentView = DASHBOARD
    /\ checkIns = <<>>
    /\ AppIdle

\* The gateway outcomes, form inputs and check-in type of Spec.
AppFaceOutcomes == {GatewayFailure, [isValid |-> TRUE], [isValid |-> FALSE]}
AppAnalysisOutcomes ==
    {GatewayFailure,
     [fatigueLevel |-> 20, riskLevel |-> LOW, explanation |-> "Rested"],
     [fatigueLevel |-> 0, riskLevel |-> INVALID, explanation |-> "Keep a neutral face"]}
AppLoginEmails == {"8@8", "gestor@eco.com"}
AppTypes == {BREAK}

Next ==
    \/ \E email \in AppLoginEmails : handleLogin(email, "123")
    \/ handleRegister("Ana", "8@8", "abc", TECHNICIAN)
    \/ \E i \in DOMAIN pendingLogin : loginUserResumes(i)
    \/ \E i \in DOMAIN pendingRegister : registerUserResumes(i)
    \/ handleLogout
    \/ \E k \in DOMAIN getUsers(localStorage) :
          handleDeleteUser(getUsers(localStorage)[k].id)
    \/ PageReload
    \/ \E draws \in SeedDraws : handleResetDemo(draws)
    \/ handleClearAll
    \/ NavDashboard
    \/ \E view \in {TEAM_OVERVIEW, ADMIN_PANEL} : NavSupervisor(view)
    \/ \E type \in AppTypes : startCheckIn(type)
    \/ Len(pendingValidate) < AppMaxPending /\ (\E imageBase64 \in Images : handlePhotoCaptured(imageBase64))
    \/ \E i \in DOMAIN pendingValidate, outcome \in AppFaceOutcomes :
          validateFaceSettles(i, outcome)
    \/ Len(getCheckIns(localStorage)) < AppMaxCheckIns /\ (\E answers \in Surveys : handleSurveySubmit(answers))
    \/ \E i \in DOMAIN pendingAnalyze, outcome \in AppAnalysisOutcomes :
          analyzeFatigueSettles(i, outcome)
    \/ resultButton

Spec == Init /\ [][Next]_vars

(***************************************************************************)
(* SpecWorkflow: the check-in workflow of a signed-in user of the seeded   *)
(* store, with the clock running and every gateway outcome.                *)
(***************************************************************************)
\* The page after handleResetDemo at time 0 and a login as the given user.
SignedIn(draws, user) ==
    /\ localStorage = setItem(resetToSeedData(EmptyObject, draws, 0),
                              SESSION_KEY, withoutPassword(user))
    /\ currentUser = withoutPassword(user)
    /\ checkIns = refreshData(localStorage, currentUser)
    /\ currentView = IF user.role = SUPERVISOR THEN TEAM_OVERVIEW ELSE DASHBOARD

\* The check-in types started in SpecWorkflow.
WorkflowTypes == {START_SHIFT, BREAK}

InitWorkflow ==
    /\ now = 0
    /\ pendingRegister = <<>>
    /\ pendingLogin = <<>>
    /\ NoTabs
    /\ \E k \in 1..(2 + SeedLast - SeedFirst) :
          SignedIn(LowestDraws, (<<gestor>> \o seedUsers(SeedFirst))[k])
    /\ AppIdle

NextWorkflow ==
    \/ Tick
    \/ PageReload
    \/ NavDashboard
    \/ \E type \in WorkflowTypes : startCheckIn(type)
    \/ \E imageBase64 \in Images :
          Len(pendingValidate) < MaxPending /\ handlePhotoCaptured(imageBase64)
    \/ \E i \in DOMAIN pendingValidate, outcome \in FaceOutcomes :
          validateFaceSettles(i, outcome)
    \/ \E answers \in Surveys :
          /\ Len(getCheckInsByUser(localStorage, currentUser.id)) < MaxOwnCheckIns
          /\ handleSurveySubmit(answers)
    \/ \E i \in DOMAIN pendingAnalyze, outcome \in AnalysisOutcomes :
          analyzeFatigueSettles(i, outcome)
    \/ resultButton

SpecWorkflow == InitWorkflow /\ [][NextWorkflow]_vars

(***************************************************************************)
(* SpecStore: the store under the calls of two other tabs, over an empty   *)
(* or a seeded localStorage; the page of this model stays signed out and   *)
(* idle.                                                                   *)
(***************************************************************************)
StoreAnalysis == [fatigueLevel |-> 20, riskLevel |-> LOW, explanation |-> "Rested"]

InitStore ==
    /\ localStorage \in {EmptyObject, resetToSeedData(EmptyObject, LowestDraws, 0)}
    /\ now = 0
    /\ pendingRegister = <<>>
    /\ pendingLogin = <<>>
    /\ NoTabs
    /\ currentUser = null
    /\ currentView = DASHBOARD
    /\ checkIns = <<>>
    /\ AppIdle

NextStore ==
    \/ Tick
    \/ \E t \in Tabs :
          \/ \E email \in FormEmails : tabRegisterUser(t, "Ana", email, "abc", TECHNICIAN)
          \/ \E password \in FormPasswords : tabLoginUser(t, "GESTOR@eco.com", password)
          \/ tabLogoutUser(t)
          \/ \E k \in DOMAIN getUsers(localStorage) :
                tabDeleteUser(t, getUsers(localStorage)[k].id)
          \/ \E k \in DOMAIN getUsers(localStorage) :
                tabSaveCheckIn(t, getUsers(localStorage)[k].id, BREAK, StoreAnalysis)
          \/ tabResetToSeedData(t)
          \/ tabClearAllData(t, "clearAllData")
          \/ registerUserChecks(t)
          \/ saveUserReads(t)
          \/ saveUserWrites(t)
          \/ registerUserSetsSession(t)
          \/ loginUserChecks(t)
          \/ loginUserSetsSession(t)
          \/ deleteUserWritesUsers(t)
          \/ deleteUserReadsCheckIns(t)
          \/ deleteUserWritesCheckIns(t)
          \/ saveCheckInWrites(t)
          \/ clearAllDataRemovesCheckIns(t)
          \/ clearAllDataRemovesSession(t, LowestDraws)
          \/ resetToSeedDataWritesUsers(t)
          \/ resetToSeedDataWritesCheckIns(t)

SpecStore == InitStore /\ [][NextStore]_vars

(***************************************************************************)
(* SpecUnresponsive: the workflow of SpecWorkflow with a gateway that      *)
(* answers every call as long as it is up and stops answering for good at  *)
(* time MaxNow.  The code sets no timeout on generateContent and starts    *)
(* no timer of its own, so nothing but an answer settles a pending call.   *)
(***************************************************************************)
GatewayUp == now < MaxNow

validateFaceAnswers(i, outcome) ==
    /\ GatewayUp
    /\ validateFaceSettles(i, outcome)

analyzeFatigueAnswers(i, outcome) ==
    /\ GatewayUp
    /\ analyzeFatigueSettles(i, outcome)

NextUnresponsive ==
    \/ Tick
    \/ PageReload
    \/ NavDashboard
    \/ \E type \in WorkflowTypes : startCheckIn(type)
    \/ \E imageBase64 \in Images :
          Len(pendingValidate) < MaxPending /\ handlePhotoCaptured(imageBase64)
    \/ \E i \in DOMAIN pendingValidate, outcome \in FaceOutcomes :
          validateFaceAnswers(i, outcome)
    \/ \E answers \in Surveys :
          /\ Len(getCheckInsByUser(localStorage, currentUser.id)) < MaxOwnCheckIns
          /\ handleSurveySubmit(answers)
    \/ \E i \in DOMAIN pendingAnalyze, outcome \in AnalysisOutcomes :
          analyzeFatigueAnswers(i, outcome)
    \/ resultButton

\* While it is up the gateway answers every pending call.
GatewayAnswers ==
    /\ WF_vars(\E i \in DOMAIN pendingValidate, outcome \in FaceOutcomes :
                  validateFaceAnswers(i, outcome))
    /\ WF_vars(\E i \in DOMAIN pendingAnalyze, outcome \in AnalysisOutcomes :
                  analyzeFatigueAnswers(i, outcome))

SpecUnresponsive == InitWorkflow /\ [][NextUnresponsive]_vars /\ GatewayAnswers

(***************************************************************************)
(* SpecScores: the workflow of SpecWorkflow with a gateway whose analyses  *)
(* carry scores on both sides of the thresholds of the prompt.  The prompt *)
(* asks for Final_Score = Visual * 0.8 + Survey * 0.2 and for riskLevel    *)
(* HIGH when Visual > 70; the response carries the final score only.       *)
(***************************************************************************)
ScoredResponses ==
    { [fatigueLevel |-> 20, riskLevel |-> LOW, explanation |-> "Rested"],
      [fatigueLevel |-> 66, riskLevel |-> HIGH, explanation |-> "Drooping eyelids"],
      [fatigueLevel |-> 90, riskLevel |-> LOW, explanation |-> "Reports feeling fine"] }

NextScores ==
    \/ Tick
    \/ PageReload
    \/ NavDashboard
    \/ \E type \in WorkflowTypes : startCheckIn(type)
    \/ \E imageBase64 \in Images :
          Len(pendingValidate) < MaxPending /\ handlePhotoCaptured(imageBase64)
    \/ \E i \in DOMAIN pendingValidate, outcome \in AppFaceOutcomes :
          validateFaceSettles(i, outcome)
    \/ \E answers \in Surveys :
          /\ Len(getCheckInsByUser(localStorage, currentUser.id)) < MaxOwnCheckIns
          /\ handleSurveySubmit(answers)
    \/ \E i \in DOMAIN pendingAnalyze, outcome \in ScoredResponses :
          analyzeFatigueSettles(i, outcome)
    \/ resultButton

SpecScores == InitWorkflow /\ [][NextScores]_vars

(***************************************************************************)
(* SpecCaptures: the workflow of SpecWorkflow with two photographs and a   *)
(* gateway whose face check depends on the photograph alone: FaceImage     *)
(* shows a face, WallImage does not.                                       *)
(***************************************************************************)
FaceImage == "data:image/jpeg;base64,FACE"
WallImage == "data:image/jpeg;base64,WALL"
CapturedImages == {FaceImage, WallImage}

\* The parsed response of the face check for a photograph.
FaceCheckOf(imageBase64) ==
    IF imageBase64 = FaceImage
    THEN [isValid |-> TRUE]
    ELSE [isValid |-> FALSE, message |-> "No face visible"]

validateFaceAnswersFor(i) ==
    /\ i \in DOMAIN pendingValidate
    /\ validateFaceSettles(i, FaceCheckOf(pendingValidate[i].imageBase64))

NextCaptures ==
    \/ Tick
    \/ PageReload
    \/ NavDashboard
    \/ \E type \in WorkflowTypes : startCheckIn(type)
    \/ \E imageBase64 \in CapturedImages :
          Len(pendingValidate) < MaxCaptures /\ handlePhotoCaptured(imageBase64)
    \/ \E i \in DOMAIN pendingValidate : validateFaceAnswersFor(i)
    \/ \E answers \in Surveys :
          /\ Len(getCheckInsByUser(localStorage, currentUser.id)) < MaxOwnCheckIns
          /\ handleSurveySubmit(answers)
    \/ \E i \in DOMAIN pendingAnalyze, outcome \in AppAnalysisOutcomes :
          analyzeFatigueSettles(i, outcome)
    \/ resultButton

SpecCaptures == InitWorkflow /\ [][NextCaptures]_vars

(***************************************************************************)
(* SpecQuota: the signed-in workflow over a localStorage whose quota may   *)
(* be exhausted; the records hold the captured images, and setItem throws  *)
(* QuotaExceededError and stores nothing when the new value does not fit.  *)
(***************************************************************************)
QuotaExceededError == [thrown |-> "QuotaExceededError"]

\* localStorage.setItem(key, value); exceeded tells whether the value is
\* over the quota.
setItemWithinQuota(ls, key, value, exceeded) ==
    IF exceeded THEN QuotaExceededError ELSE setItem(ls, key, value)

\* saveCheckIn over that localStorage.
saveCheckInWithinQuota(ls, record, exceeded) ==
    setItemWithinQuota(ls, CHECKINS_KEY, <<record>> \o getCheckIns(ls), exceeded)

\* A variant whose catch block leaves the view as it is.
analyzeFatigueSettlesWithinQuota_noCatch(i, outcome, exceeded) ==
    /\ i \in DOMAIN pendingAnalyze
    /\ LET call == pendingAnalyze[i]
           analysis == analyzeFatigue(outcome)
           saved == saveCheckInWithinQuota(localStorage, newRecord(call, analysis, now),
                                           exceeded)
       IN  IF analysis = null
           THEN /\ currentView' = DASHBOARD
                /\ UNCHANGED <<localStorage, lastResult, checkIns>>
           ELSE IF isInvalid(analysis)
                THEN /\ lastResult' = analysis
                     /\ currentView' = CHECK_IN_RESULT
                     /\ UNCHANGED <<localStorage, checkIns>>
                ELSE IF saved = QuotaExceededError
                     THEN /\ lastResult' = analysis
                          /\ UNCHANGED <<localStorage, checkIns, currentView>>
                     ELSE /\ lastResult' = analysis
                          /\ localStorage' = saved
                          /\ checkIns' = refreshData(localStorage', call.currentUser)
                          /\ currentView' = CHECK_IN_RESULT
    /\ isLoading' = FALSE
    /\ pendingAnalyze' = RemoveAt(pendingAnalyze, i)
    /\ UNCHANGED <<now, pendingRegister, pendingLogin, tabVars, currentUser,
                   selectedCheckInType, tempImage, validationError, authIsLoading,
                   authError, pendingValidate>>

\* handleSurveySubmit from the answer of analyzeFatigue on, with the catch
\* and finally blocks that a throwing saveCheckIn passes.
analyzeFatigueSettlesWithinQuota(i, outcome, exceeded) ==
    /\ i \in DOMAIN pendingAnalyze
    /\ LET call == pendingAnalyze[i]
           analysis == analyzeFatigue(outcome)
           saved == saveCheckInWithinQuota(localStorage, newRecord(call, analysis, now),
                                           exceeded)
       IN  IF analysis = null
           THEN /\ currentView' = DASHBOARD
                /\ UNCHANGED <<localStorage, lastResult, checkIns>>
           ELSE IF isInvalid(analysis)
                THEN /\ lastResult' = analysis
                     /\ currentView' = CHECK_IN_RESULT
                     /\ UNCHANGED <<localStorage, checkIns>>
                ELSE IF saved = QuotaExceededError
                     THEN /\ lastResult' = analysis
                          /\ currentView' = DASHBOARD
                          /\ UNCHANGED <<localStorage, checkIns>>
                     ELSE /\ lastResult' = analysis
                          /\ localStorage' = saved
                          /\ checkIns' = refreshData(localStorage', call.currentUser)
                          /\ currentView' = CHECK_IN_RESULT
    /\ isLoading' = FALSE
    /\ pendingAnalyze' = RemoveAt(pendingAnalyze, i)
    /\ UNCHANGED <<now, pendingRegister, pendingLogin, tabVars, currentUser,
                   selectedCheckInType, tempImage, validationError, authIsLoading,
                   authError, pendingValidate>>

NextQuota ==
    \/ Tick
    \/ PageReload
    \/ NavDashboard
    \/ \E type \in WorkflowTypes : startCheckIn(type)
    \/ \E imageBase64 \in Images :
          Len(pendingValidate) < MaxPending /\ handlePhotoCaptured(imageBase64)
    \/ \E i \in DOMAIN pendingValidate, outcome \in AppFaceOutcomes :
          validateFaceSettles(i, outcome)
    \/ \E answers \in Surveys :
          /\ Len(getCheckInsByUser(localStorage, currentUser.id)) < MaxOwnCheckIns
          /\ handleSurveySubmit(answers)
    \/ \E i \in DOMAIN pendingAnalyze, outcome \in AppAnalysisOutcomes,
          exceeded \in BOOLEAN :
          analyzeFatigueSettlesWithinQuota(i, outcome, exceeded)
    \/ resultButton

SpecQuota == InitWorkflow /\ [][NextQuota]_vars

(***************************************************************************)
(* Properties.                                                             *)
(***************************************************************************)
users == getUsers(localStorage)
records == getCheckIns(localStorage)

\* The riskLevel of a stored analysis, "undefined" when the field is missing.
RiskOf(analysis) ==
    IF "riskLevel" \in DOMAIN analysis THEN analysis.riskLevel ELSE "undefined"

\* A record built by handleSurveySubmit (seeded records carry no location).
FromWorkflow(r) == "location" \in DOMAIN r

\* C1: in every reachable state of the application no stored check-in
\* record has an analysis whose riskLevel is INVALID.
C1_NoInvalidRecordStored ==
    \A k \in DOMAIN records : RiskOf(records[k].analysis) # INVALID

\* An invalid attempt has been shown while the repository holds a record
\* written by the workflow.
C1_Witness ==
    /\ currentView = CHECK_IN_RESULT
    /\ lastResult # null
    /\ RiskOf(lastResult) = INVALID
    /\ \E k \in DOMAIN records : FromWorkflow(records[k])

\* C2: when analyzeFatigue settles with a result whose riskLevel is INVALID,
\* the step leaves the check-in collection as it was and moves to the result
\* view showing that result.
C2_InvalidResultAddsNothing ==
    [][\A i \in DOMAIN pendingAnalyze, outcome \in AnalysisOutcomes :
          LET analysis == analyzeFatigue(outcome)
          IN  (/\ analyzeFatigueSettles(i, outcome)
               /\ analysis # null
               /\ RiskOf(analysis) = INVALID)
              => /\ getCheckIns(localStorage') = records
                 /\ currentView' = CHECK_IN_RESULT
                 /\ lastResult' = analysis]_vars

\* The result view shows an invalid result and no call is outstanding.
C2_Witness ==
    /\ currentView = CHECK_IN_RESULT
    /\ lastResult # null
    /\ RiskOf(lastResult) = INVALID
    /\ pendingAnalyze = <<>>
    /\ ~isLoading

FaceRejectedOrFailed(outcome) ==
    \/ outcome = GatewayFailure
    \/ outcome = null
    \/ "isValid" \notin DOMAIN outcome
    \/ outcome.isValid = FALSE

\* C4: when the face check answers isValid = false, answers without an
\* isValid field or fails, the step goes to the camera view with a
\* non-empty validation error and adds no record.
C4_FaceValidationFailClosed ==
    [][\A i \in DOMAIN pendingValidate, outcome \in FaceOutcomes :
          (validateFaceSettles(i, outcome) /\ FaceRejectedOrFailed(outcome))
          => /\ currentView' = CHECK_IN_CAMERA
             /\ validationError' # nullStr
             /\ validationError' # ""
             /\ getCheckIns(localStorage') = records]_vars

\* The camera view shows a validation error.
C4_Witness ==
    /\ currentView = CHECK_IN_CAMERA
    /\ validationError # nullStr
    /\ tempImage # nullStr

\* C5: nothing is persisted from an abandoned attempt: a step taken while
\* the user is back on the dashboard with analyzeFatigue still outstanding
\* adds no record.
C5_AbandonedAttemptNotPersisted ==
    [][(currentView = DASHBOARD /\ pendingAnalyze # <<>>)
          => getCheckIns(localStorage') = records]_vars

\* C6: startCheckIn cannot be triggered while a validateFace or
\* analyzeFatigue call of the current user is outstanding.
C6_NoStartWhileInFlight ==
    \A type \in CheckInType :
        (currentUser # null /\ currentView = DASHBOARD /\ ~isDone(type))
        => /\ \A k \in DOMAIN pendingValidate :
                 pendingValidate[k].currentUser.id # currentUser.id
           /\ \A k \in DOMAIN pendingAnalyze :
                 pendingAnalyze[k].currentUser.id # currentUser.id

\* C7: a user has at most one record per check-in type per day.
C7_OneRecordPerTypePerDay ==
    \A j, k \in DOMAIN records :
        (/\ j < k
         /\ records[j].userId = records[k].userId
         /\ records[j].type = records[k].type)
        => DayOf(records[j].timestamp) # DayOf(records[k].timestamp)

\* Some stored user has the given address, ignoring case.
EmailTaken(email) ==
    \E k \in DOMAIN users : toLowerCase(users[k].email) = toLowerCase(email)

SessionOf(ls) == IF hasItem(ls, SESSION_KEY) THEN <<ls[SESSION_KEY]>> ELSE <<>>

\* C8: a registerUser call that finds its address taken, ignoring case,
\* fails with the email-already-registered error and leaves the user
\* collection and the session as they were.
C8_DuplicateRegistrationRejected ==
    [][\A t \in Tabs :
          (registerUserChecks(t) /\ EmailTaken(tabs[t].email))
          => /\ getUsers(localStorage') = users
             /\ SessionOf(localStorage') = SessionOf(localStorage)
             /\ returned' = [op |-> "registerUser", ok |-> FALSE,
                             error |-> "Email already registered"]]_vars

\* A registration was refused while the address is held by a user.
C8_Witness ==
    /\ returned = [op |-> "registerUser", ok |-> FALSE,
                   error |-> "Email already registered"]
    /\ users # <<>>

\* C9: no two stored users have addresses that are equal ignoring case.
C9_EmailsUnique ==
    \A j, k \in DOMAIN users :
        j < k => toLowerCase(users[j].email) # toLowerCase(users[k].email)

\* The positions that deleteUser(userId) keeps, given the owner of each
\* position, and the number of kept positions up to i.
KeptOf(owners, userId) == {i \in DOMAIN owners : owners[i] # userId}
RankIn(kept, i) == Cardinality({j \in kept : j <= i})

\* after is arr without the elements owned by userId, in the same order.
IsRemovalOf(after, arr, owners, userId) ==
    LET kept == KeptOf(owners, userId)
    IN  /\ Len(after) = Cardinality(kept)
        /\ \A i \in kept : after[RankIn(kept, i)] = arr[i]

IdsOf(arr) == [i \in DOMAIN arr |-> arr[i].id]
UserIdsOf(arr) == [i \in DOMAIN arr |-> arr[i].userId]

C11_NoOrphanRecords ==
    \A k \in DOMAIN records : \E j \in DOMAIN users : users[j].id = records[k].userId

\* C12: no state that another caller of the store can read has a user
\* removed by a deleteUser call while records of that user are still stored:
\* once a call has written the user collection, the check-in collection
\* holds no record of the deleted user.
C12_DeleteUserAtomic ==
    \A t \in Tabs :
        (/\ tabs[t].pc \in {"deleteUser.getCheckIns", "deleteUser.setItem2"}
         /\ \A k \in DOMAIN users : users[k].id # tabs[t].userId)
        => getCheckInsByUser(localStorage, tabs[t].userId) = <<>>

\* No stored user with the given address, ignoring case, has the given
\* password: the address is unknown or the password differs.
NoCredentials(email, password) ==
    \A k \in DOMAIN users :
        toLowerCase(users[k].email) = toLowerCase(email) => users[k].password # password

\* C13: a loginUser call that finds its address unknown or its password
\* different from the stored one fails with the invalid-credentials error
\* and leaves the session, the user collection and the check-in collection
\* as they were.
C13_FailedLoginChangesNothing ==
    [][\A t \in Tabs :
          (loginUserChecks(t) /\ NoCredentials(tabs[t].email, tabs[t].password))
          => /\ SessionOf(localStorage') = SessionOf(localStorage)
             /\ getUsers(localStorage') = users
             /\ getCheckIns(localStorage') = records
             /\ tabs'[t] = Idle
             /\ returned' = [op |-> "loginUser", ok |-> FALSE,
                             error |-> "Invalid email or password"]]_vars

\* A login was refused while a session of an earlier call is stored and the
\* address is held by a user.
C13_Witness ==
    /\ returned = [op |-> "loginUser", ok |-> FALSE, error |-> "Invalid email or password"]
    /\ hasItem(localStorage, SESSION_KEY)
    /\ EmailTaken("GESTOR@eco.com")

\* The fields of a user record without its password.
SessionFields == {"id", "name", "email", "role"}

\* C14: the stored session is absent or a user record without its password
\* field, and a loginUser call that succeeds returns the value it has stored
\* as the session.
C14_SessionWithoutPassword ==
    /\ [](\A k \in DOMAIN SessionOf(localStorage) :
             DOMAIN SessionOf(localStorage)[k] = SessionFields)
    /\ [][\A t \in Tabs :
             loginUserSetsSession(t)
             => /\ returned'.ok
                /\ returned'.value = getCurrentSession(localStorage')]_vars

\* A loginUser call has succeeded and the session it returned is stored.
C14_Witness ==
    /\ returned.op = "loginUser"
    /\ returned.ok
    /\ getCurrentSession(localStorage) = returned.value
    /\ \E k \in DOMAIN users : users[k].id = returned.value.id /\ "password" \in DOMAIN users[k]

\* C15: a registerUser call that finds its address free appends one user
\* with the given name, address, password and role at the end of the user
\* collection, leaves the users before it and the check-in collection as
\* they were, and stores that user without its password as the session.
C15_RegisterAppendsUser ==
    [][\A i \in DOMAIN pendingRegister :
          LET call == pendingRegister[i]
              after == getUsers(localStorage')
              last == after[Len(after)]
          IN  (registerUserResumes(i) /\ ~EmailTaken(call.email))
              => /\ Len(after) = Len(users) + 1
                 /\ \A k \in DOMAIN users : after[k] = users[k]
                 /\ last.name = call.name
                 /\ last.email = call.email
                 /\ last.password = call.password
                 /\ last.role = call.role
                 /\ getCurrentSession(localStorage') =
                        [id |-> last.id, name |-> call.name, email |-> call.email,
                         role |-> call.role]
                 /\ getCheckIns(localStorage') = records]_vars

\* The registered user is stored after the seeded supervisor and is the
\* current user of the page.
C15_Witness ==
    /\ Len(users) = 2
    /\ users[1] = gestor
    /\ users[2].name = "Ana"
    /\ users[2].password = "abc"
    /\ currentUser # null
    /\ currentUser.id = users[2].id
    /\ getCurrentSession(localStorage) = currentUser

\* C16: a logout leaves no stored session, so that getCurrentSession
\* returns null, and leaves the user collection and the check-in collection
\* as they were.
C16_LogoutClearsSessionOnly ==
    [][handleLogout
          => /\ ~hasItem(localStorage', SESSION_KEY)
             /\ getCurrentSession(localStorage') = null
             /\ getUsers(localStorage') = users
             /\ getCheckIns(localStorage') = records]_vars

\* A registered user who has a stored record is signed out: the session is
\* gone while the user and the record are still stored.
C16_Witness ==
    /\ ~hasItem(localStorage, SESSION_KEY)
    /\ currentUser = null
    /\ \E k \in DOMAIN users :
          /\ users[k].name = "Ana"
          /\ getCheckInsByUser(localStorage, users[k].id) # <<>>

\* C17: a save puts the new record at the head of the check-in collection
\* and changes nothing else, so that the records saved by the workflow are
\* stored most recent first and ahead of the records that were there before.
C17_SaveCheckInAtHead ==
    /\ [](\A j, k \in DOMAIN records :
             (j < k /\ FromWorkflow(records[k]))
             => /\ FromWorkflow(records[j])
                /\ records[j].timestamp >= records[k].timestamp)
    /\ [][getCheckIns(localStorage') # records
             => /\ getCheckIns(localStorage') = <<getCheckIns(localStorage')[1]>> \o records
                /\ getUsers(localStorage') = users
                /\ SessionOf(localStorage') = SessionOf(localStorage)
                /\ DOMAIN localStorage' = DOMAIN localStorage]_vars

\* Two records saved one after the other head the collection, the later
\* one first, ahead of the seeded record.
C17_Witness ==
    /\ Len(records) = 3
    /\ FromWorkflow(records[1])
    /\ FromWorkflow(records[2])
    /\ ~FromWorkflow(records[3])
    /\ records[1].timestamp > records[2].timestamp

\* C18: when the gateway fails, analyzeFatigue returns a result with
\* fatigueLevel 0 and riskLevel INVALID instead of raising, and the step in
\* which handleSurveySubmit receives it shows that result, clears the
\* loading flag and adds no record.
C18_AnalyzeFailureAbsorbed ==
    [][\A i \in DOMAIN pendingAnalyze :
          analyzeFatigueSettles(i, GatewayFailure)
          => /\ lastResult' # null
             /\ "fatigueLevel" \in DOMAIN lastResult' /\ lastResult'.fatigueLevel = 0
             /\ "riskLevel" \in DOMAIN lastResult' /\ lastResult'.riskLevel = INVALID
             /\ currentView' = CHECK_IN_RESULT
             /\ isLoading' = FALSE
             /\ getCheckIns(localStorage') = records]_vars

\* The result view shows the result of a failed gateway call.
C18_Witness ==
    /\ currentView = CHECK_IN_RESULT
    /\ lastResult = [fatigueLevel |-> 0, riskLevel |-> INVALID,
                     explanation |-> "AI Connection Error."]
    /\ ~isLoading

\* C19: every analysis stored in a check-in record has a riskLevel among
\* LOW, MODERATE, HIGH and INVALID and a fatigueLevel in 0..100.
C19_StoredAnalysisWellFormed ==
    \A k \in DOMAIN records :
        /\ "riskLevel" \in DOMAIN records[k].analysis
        /\ records[k].analysis.riskLevel \in RiskLevel
        /\ "fatigueLevel" \in DOMAIN records[k].analysis
        /\ records[k].analysis.fatigueLevel \in 0..100

\* C20: with a gateway that does not respond, a workflow waiting for
\* validateFace eventually leaves the validating view (for the camera view,
\* unless the user has left the attempt), and a workflow waiting for
\* analyzeFatigue eventually has its loading flag cleared (with the rejected
\* result on show, unless the user has reloaded the page).
C20_UnresponsiveGatewayHandled ==
    /\ (currentView = CHECK_IN_VALIDATING /\ pendingValidate # <<>> /\ ~GatewayUp)
           ~> (currentView # CHECK_IN_VALIDATING)
    /\ (isLoading /\ pendingAnalyze # <<>> /\ ~GatewayUp)
           ~> (~isLoading)

\* With Final = Visual * 0.8 + Survey * 0.2 and Survey at most 100, a final
\* score above 76 comes from a visual score above 70 only.
VisualAbove70(fatigueLevel) == 5 * fatigueLevel - 100 > 4 * 70

\* C21: no stored record whose score can only come from a visual score
\* above 70 has a riskLevel other than HIGH.
C21_OverrideLaw ==
    \A k \in DOMAIN records :
        LET analysis == records[k].analysis
        IN  ("fatigueLevel" \in DOMAIN analysis /\ VisualAbove70(analysis.fatigueLevel))
            => RiskOf(analysis) = HIGH

InSeq(x, seq) == \E k \in DOMAIN seq : seq[k] = x

\* A record saved by a saveCheckIn call of a tab (seeded records carry an
\* imageUrl).
FromTab(r) == "imageUrl" \notin DOMAIN r

\* C22: the write of a saveCheckIn call replaces the whole collection by
\* what the call has read plus its record, and the call returns: a record
\* that another caller has stored since that read is lost.
C22_ConcurrentSaveLosesUpdate ==
    [][\A t \in Tabs :
          LET after == getCheckIns(localStorage')
              read == tabs[t].records
          IN  saveCheckInWrites(t)
              => /\ tabs'[t] = Idle
                 /\ after[1] = read[1]
                 /\ \A k \in DOMAIN records :
                       ~InSeq(records[k], read) => ~InSeq(records[k], after)]_vars

\* One caller has stored its record while the other has read the collection
\* without it and is about to write.
C22_Witness ==
    \E t \in Tabs :
        /\ tabs[t].pc = "saveCheckIn.setItem"
        /\ records # <<>>
        /\ FromTab(records[1])
        /\ ~InSeq(records[1], tabs[t].records)

\* The result view shows a rejected result.
RejectedShown ==
    /\ currentView = CHECK_IN_RESULT
    /\ lastResult # null
    /\ RiskOf(lastResult) = INVALID

C24_SessionFollowsLastAuth ==
    [][/\ \A i \in DOMAIN pendingLogin :
             LET call == pendingLogin[i]
                 session == getCurrentSession(localStorage')
             IN  (loginUserResumes(i) /\ ~NoCredentials(call.email, call.password))
                 => /\ session # null
                    /\ toLowerCase(session.email) = toLowerCase(call.email)
                    /\ \E k \in DOMAIN users : users[k].id = session.id
       /\ \A i \in DOMAIN pendingRegister :
             LET call == pendingRegister[i]
                 session == getCurrentSession(localStorage')
             IN  (registerUserResumes(i) /\ ~EmailTaken(call.email))
                 => /\ session # null
                    /\ session.email = call.email
                    /\ session.name = call.name
       /\ (handleLogout \/ handleClearAll \/ \E draws \in SeedDraws : handleResetDemo(draws))
             => getCurrentSession(localStorage') = null
       /\ SessionOf(localStorage') # SessionOf(localStorage)
             => \/ \E i \in DOMAIN pendingLogin : loginUserResumes(i)
                \/ \E i \in DOMAIN pendingRegister : registerUserResumes(i)
                \/ handleLogout
                \/ handleClearAll
                \/ \E draws \in SeedDraws : handleResetDemo(draws)
       /\ PageReload
             => /\ localStorage' = localStorage
                /\ currentUser' = getCurrentSession(localStorage)]_vars

\* The registered user, who cannot sign in with the password of the login
\* form, is the current user of a reloaded page and has a stored record.
C24_Witness ==
    /\ currentUser # null
    /\ currentUser.name = "Ana"
    /\ getCurrentSession(localStorage) = currentUser
    /\ selectedCheckInType = START_SHIFT
    /\ \E k \in DOMAIN records :
          FromWorkflow(records[k]) /\ records[k].userId = currentUser.id

\* C25: no stored record has an image that the face check rejects.
C25_OnlyValidatedImagesStored ==
    \A k \in DOMAIN records :
        FromWorkflow(records[k]) => records[k].imageUrl # WallImage

\* C26: the answer to an analyzeFatigue call that was made by a user who
\* has since logged out changes neither the stored records nor the view,
\* the result or the check-in list of the page.
C26_LateAnswerAfterLogoutIgnored ==
    [][\A i \in DOMAIN pendingAnalyze, outcome \in AnalysisOutcomes :
          (analyzeFatigueSettles(i, outcome) /\ pendingAnalyze[i].currentUser # currentUser)
          => /\ getCheckIns(localStorage') = records
             /\ currentView' = currentView
             /\ lastResult' = lastResult
             /\ checkIns' = checkIns]_vars

\* C27: whenever the survey view is shown a captured image is buffered, so
\* that submitting the survey starts an analysis.
C27_SurveyHasImage ==
    currentView = CHECK_IN_SURVEY => tempImage # nullStr

\* C28: at most one analyzeFatigue call of the page is outstanding, and the
\* loading flag is set exactly while one is: set when the call starts and
\* cleared when it ends, whatever its outcome.
C28_OneAnalysisOutstanding ==
    /\ Len(pendingAnalyze) <= 1
    /\ isLoading <=> pendingAnalyze # <<>>

C28_Witness ==
    /\ currentView = CHECK_IN_SURVEY
    /\ isLoading
    /\ Len(pendingAnalyze) = 1
    /\ tempImage # nullStr

\* C29: the ids of the stored check-in records are pairwise distinct, and
\* so are the ids of the stored users.
C29_IdsPairwiseDistinct ==
    /\ \A j, k \in DOMAIN records : records[j].id = records[k].id => j = k
    /\ \A j, k \in DOMAIN users : users[j].id = users[k].id => j = k

\* C30: when saveCheckIn throws while an accepted result is being stored,
\* the check-in collection and the listed records stay as they were, the
\* view becomes the dashboard, the loading flag is cleared and no check-in
\* type becomes done.
C30_FailedSaveReturnsToDashboard ==
    [][\A i \in DOMAIN pendingAnalyze, outcome \in AppAnalysisOutcomes :
          (/\ analyzeFatigueSettlesWithinQuota(i, outcome, TRUE)
           /\ outcome # GatewayFailure
           /\ outcome.riskLevel # INVALID)
          => /\ getCheckIns(localStorage') = records
             /\ checkIns' = checkIns
             /\ currentView' = DASHBOARD
             /\ ~isLoading'
             /\ \A type \in WorkflowTypes : isDone(type)' <=> isDone(type)]_vars

C30_Witness ==
    /\ currentView = DASHBOARD
    /\ ~isLoading
    /\ lastResult # null
    /\ ~isInvalid(lastResult)
    /\ \A k \in DOMAIN records : ~FromWorkflow(records[k])
    /\ \E type \in WorkflowTypes : ~isDone(type)

====
